---- MODULE Spec2Model ----
(***************************************************************************)
(* A model of wic's recursive workflow compiler, compile_workflow          *)
(* (src/src/wic/compiler.py), together with the harness of                 *)
(* test_cwl_embedding_independence (src/tests/test_examples.py).           *)
(*                                                                         *)
(* Strings are sequences of atoms (TLA+ strings): the separator '___',     *)
(* the markers '&', '*', '?', '/' and the name fragments are atoms, so     *)
(* that join, split, replace and indexing are computed, not assumed.       *)
(* Python dicts are insertion-ordered: a dict is a sequence of <<key,      *)
(* value>> pairs with distinct keys.                                       *)
(***************************************************************************)
EXTENDS Integers, Sequences, FiniteSets, TLC

VARIABLES files, args, tools, vars_dollar_defs, stack, ret, fatal, graph,
          arg, phase, node_data_lst, fakeroot

vars == <<files, args, tools, vars_dollar_defs, stack, ret, fatal, graph,
          arg, phase, node_data_lst, fakeroot>>

-----------------------------------------------------------------------------
(* Bounds of the input family.                                             *)

\* Nesting depth of workflow files: root, sub1, sub2.
MaxDepth == 3
\* Steps of one workflow file.
MaxSteps == 2
\* Steps of the whole tree of workflow files.
MaxTotalSteps == 4

-----------------------------------------------------------------------------
(* Strings and dicts.                                                      *)

SEP == "___"

RECURSIVE Join(_)
\* '___'.join(list)
Join(list) ==
    IF list = <<>> THEN <<>>
    ELSE IF Len(list) = 1 THEN list[1]
    ELSE list[1] \o <<SEP>> \o Join(Tail(list))

RECURSIVE SplitAcc(_, _, _)
SplitAcc(s, cur, acc) ==
    IF s = <<>> THEN Append(acc, cur)
    ELSE IF Head(s) = SEP THEN SplitAcc(Tail(s), <<>>, Append(acc, cur))
    ELSE SplitAcc(Tail(s), Append(cur, Head(s)), acc)

\* s.split('___')
Split(s) == SplitAcc(s, <<>>, <<>>)

\* lst[:-1]
Init_(lst) == SubSeq(lst, 1, Len(lst) - 1)

\* lst[-1]
Last(lst) == lst[Len(lst)]

RECURSIVE Remove(_, _)
\* s.replace(c, '')
Remove(s, c) ==
    IF s = <<>> THEN <<>>
    ELSE IF Head(s) = c THEN Remove(Tail(s), c)
    ELSE <<Head(s)>> \o Remove(Tail(s), c)

\* 'sub' in s, for a fragment that is one atom
Contains(s, c) == \E j \in 1..Len(s) : s[j] = c

\* list(d)
Keys(d) == [j \in 1..Len(d) |-> d[j][1]]

KeySet(d) == {d[j][1] : j \in 1..Len(d)}

\* k in d
Has(d, k) == k \in KeySet(d)

\* d[k]
Get(d, k) == d[CHOOSE j \in 1..Len(d) : d[j][1] = k][2]

\* d.update({k: v})
Put(d, k, v) ==
    IF Has(d, k)
    THEN [j \in 1..Len(d) |-> IF d[j][1] = k THEN <<k, v>> ELSE d[j]]
    ELSE Append(d, <<k, v>>)

RECURSIVE Update(_, _)
\* d.update(e)
Update(d, e) == IF e = <<>> THEN d ELSE Update(Put(d, e[1][1], e[1][2]), Tail(e))

\* Python dict equality ignores the order of insertion.
Items(d) == {d[j] : j \in 1..Len(d)}

\* Path(p).stem
Stem(key) ==
    IF Len(key) > 1 /\ Last(key) \in {".yml", ".cwl"} THEN Init_(key) ELSE key

Digit(i) == <<"0", "1", "2", "3", "4", "5", "6", "7", "8", "9">>[i + 1]

\* utils.step_name_str(yaml_stem, i, step_key)
StepNameStr(yaml_stem, i, step_key) ==
    yaml_stem \o <<"__step__", Digit(i), "__">> \o step_key

-----------------------------------------------------------------------------
(* The tool registry handed in by the external loader, and the inputs.     *)

X == <<"x">>
O == <<"o">>
F == <<"f">>
D == <<"d">>
T == <<"t">>
Y == <<"y">>
DHDL == <<"out_", "dhdl">>
XTC == <<"xtc", "_out">>

\* An atomic tool: x is required, o is optional, f is a required File that
\* no step provides (so every step goes through edge inference), d has
\* the default 0 (absent, "falsy" or "truthy" is what `.get('default') or`
\* tells apart at line 137) and t the default 1; y is the
\* File it produces, next to two outputs of the kind line 360 leaves out.
ToolA ==
    [class |-> "CommandLineTool",
     inputs |-> << <<X, [type |-> <<"string">>, default |-> "absent"]>>,
                   <<O, [type |-> <<"string", "?">>, default |-> "absent"]>>,
                   <<F, [type |-> <<"File">>, default |-> "absent"]>>,
                   <<D, [type |-> <<"int">>, default |-> "falsy"]>>,
                   <<T, [type |-> <<"int">>, default |-> "truthy"]>> >>,
     outputs |-> << <<Y, [type |-> <<"File">>]>>,
                    <<DHDL, [type |-> <<"File">>]>>,
                    <<XTC, [type |-> <<"File">>]>> >>]

TOOLA == <<"toolA">>

\* tools: stem -> (run path, tool document)
ToolsInit == [s \in {TOOLA} |-> [run |-> TOOLA \o <<".cwl">>, doc |-> ToolA]]

FileStem(d) == << <<"root">>, <<"sub1">>, <<"sub2">>, <<"sub3">>, <<"sub4">> >>[d]

FileStems == {FileStem(d) : d \in 1..5}

LITVAL == <<"v">>
DEFTOK == <<"&", "a">>
CALLTOK == <<"*", "a">>

\* The steps on an atomic tool: {toolA: {in: {...}}}.
ToolSteps ==
    {[key |-> TOOLA, in |-> ins] :
        ins \in { << <<X, LITVAL>> >>, << <<X, DEFTOK>> >>, << <<O, CALLTOK>> >>,
                  << <<X, DEFTOK>>, <<O, CALLTOK>> >> }}

\* The step that references the workflow file one level down: {sub1.yml: null}
\* or {sub1: null}.
SubStep(d, ext) == [key |-> FileStem(d + 1) \o ext, in |-> <<>>]

StepChoices(d, ext) ==
    ToolSteps \cup (IF d < MaxDepth THEN {SubStep(d, ext)} ELSE {})

Min(a, b) == IF a < b THEN a ELSE b

StepLists(d, ext, budget) ==
    UNION {[1..m -> StepChoices(d, ext)] : m \in 1..Min(budget, MaxSteps)}

NoFiles(d) == [j \in 1..(MaxDepth - d + 1) |-> <<>>]

RECURSIVE Forests(_, _, _)
\* The step lists of the files at depths d..MaxDepth; <<>> is a file that
\* is not on disk. A file is on disk only if the file above references it.
Forests(d, ext, budget) ==
    IF d > MaxDepth THEN {<<>>}
    ELSE {NoFiles(d)} \cup
         UNION {{<<l>> \o rest :
                    rest \in (IF \E j \in 1..Len(l) : l[j] = SubStep(d, ext)
                              THEN Forests(d + 1, ext, budget - Len(l))
                              ELSE {NoFiles(d + 1)})} :
                l \in StepLists(d, ext, budget)}

OTHERREQ == <<"InlineJavascriptRequirement">>
SUBWORKREQ == <<"SubworkflowFeatureRequirement">>

\* The `requirements` key of an input document: absent, or a mapping
\* without or with the SubworkflowFeatureRequirement entry.
ReqChoices ==
    {[present |-> FALSE, d |-> <<>>],
     [present |-> TRUE, d |-> << <<OTHERREQ, [class |-> OTHERREQ]>> >>],
     [present |-> TRUE, d |-> << <<OTHERREQ, [class |-> OTHERREQ]>>,
                                 <<SUBWORKREQ, [class |-> SUBWORKREQ]>> >>]}

NoReq == [present |-> FALSE, d |-> <<>>]

\* The command line of tests/test_examples.py get_args.
Args ==
    [graph_label_stepname |-> FALSE, graph_show_inputs |-> FALSE,
     graph_show_outputs |-> FALSE, graph_label_edges |-> FALSE,
     graph_inline_depth |-> 1000000,
     cwl_output_intermediate_files |-> TRUE, cwl_validate |-> FALSE]

\* compile_workflow is also called without --cwl_output_intermediate_files.
ArgsChoices == {[Args EXCEPT !.cwl_output_intermediate_files = b] : b \in BOOLEAN}

NoError == "none"

NoRet == [present |-> FALSE]

NoArg == [kind |-> "none"]

\* A fresh activation of compile_workflow.
Frame(yaml_stem, namespaces, subgraphs, is_root) ==
    [pc |-> "start", yaml_stem |-> yaml_stem, namespaces |-> namespaces,
     subgraphs |-> subgraphs, is_root |-> is_root,
     requirements |-> NoReq, steps |-> <<>>, steps_keys |-> <<>>,
     subkeys |-> {}, i |-> 0, k |-> 1,
     args_provided |-> <<>>, args_required |-> <<>>,
     sub_args_provided |-> <<>>,
     inputs_workflow |-> <<>>, inputs_file_workflow |-> <<>>,
     vars_workflow_output_internal |-> <<>>, vars_dollar_calls |-> <<>>,
     step_1_names |-> <<>>, sibling_subgraphs |-> <<>>,
     recursive_data_list |-> <<>>]

\* The cluster of the root document.
RootGraph(stem) == [name |-> <<"cluster_">> \o stem, id |-> <<>>]

\* The runs explored: step keys with the .yml suffix, no requirements
\* header and the test's command line, and each of the three varied alone.
Configs ==
    {c \in [ext : {<<>>, <<".yml">>}, req : ReqChoices, args : ArgsChoices] :
        Cardinality({v \in {"ext", "req", "args"} :
                        c[v] # [ext |-> <<".yml">>, req |-> NoReq, args |-> Args][v]})
          <= 1}

Init ==
    /\ \E c \in Configs :
       \E forest \in Forests(1, c.ext, MaxTotalSteps) \ {NoFiles(1)} :
          /\ files = [s \in {FileStem(d) : d \in 1..MaxDepth} |->
                        LET d == CHOOSE d \in 1..MaxDepth : FileStem(d) = s
                        IN [exists |-> forest[d] # <<>>,
                            requirements |-> IF d = 1 THEN c.req ELSE NoReq,
                            steps |-> forest[d]]]
          /\ args = c.args
    /\ tools = ToolsInit
    /\ vars_dollar_defs = <<>>
    /\ stack = <<Frame(FileStem(1), <<>>, <<RootGraph(FileStem(1))>>, TRUE)>>
    /\ ret = NoRet
    /\ fatal = NoError
    /\ graph = [nodes |-> {}, edges |-> {}, subgraphs |-> {}, ranks |-> {}]
    /\ arg = NoArg
    /\ phase = "root"
    /\ node_data_lst = <<>>
    /\ fakeroot = <<>>

Top == stack[Len(stack)]

\* stack with its top frame replaced
SetTop(f) == [stack EXCEPT ![Len(stack)] = f]

-----------------------------------------------------------------------------
(* compile_workflow, lines 27-74: load the document, add the headers and   *)
(* the SubworkflowFeatureRequirement, create the frame's tables.           *)

\* len('SubworkflowFeatureRequirement')
SubworkreqLen == 29

\* dict(elems): every element must be a sequence of length 2.
PyDict(elems) ==
    IF \A j \in 1..Len(elems) : elems[j].len = 2
    THEN [error |-> FALSE,
          d |-> Update(<<>>, [j \in 1..Len(elems) |-> <<elems[j].k, elems[j].v>>])]
    ELSE [error |-> TRUE, d |-> <<>>]

\* The elements list(subworkreqdict) contributes at line 53: the keys of
\* the dict, each a str of 29 characters.
SubworkreqElems(subworkreqdict) ==
    [j \in 1..Len(subworkreqdict) |-> [len |-> SubworkreqLen]]

\* lines 49-56
AddSubworkreq(requirements) ==
    LET subworkreqdict == << <<SUBWORKREQ, [class |-> SUBWORKREQ]>> >>
    IN  IF requirements.present
        THEN IF ~Has(requirements.d, SUBWORKREQ)
             THEN LET items == [j \in 1..Len(requirements.d) |->
                                  [len |-> 2, k |-> requirements.d[j][1],
                                   v |-> requirements.d[j][2]]]
                      new_reqs == PyDict(items \o SubworkreqElems(subworkreqdict))
                  IN  IF new_reqs.error
                      THEN [error |-> TRUE, requirements |-> requirements]
                      ELSE [error |-> FALSE,
                            requirements |->
                               [present |-> TRUE,
                                d |-> Update(requirements.d, new_reqs.d)]]
             ELSE [error |-> FALSE, requirements |-> requirements]
        ELSE [error |-> FALSE,
              requirements |-> [present |-> TRUE, d |-> subworkreqdict]]

\* line 48
NeedsSubworkreq(steps_keys, subkeys, registry) ==
    \/ subkeys # {}
    \/ \E j \in 1..Len(steps_keys) :
          /\ steps_keys[j] \notin subkeys
          /\ registry[Stem(steps_keys[j])].doc.class = "Workflow"

Running == fatal = NoError /\ stack # <<>>

Start ==
    /\ Running
    /\ Top.pc = "start"
    /\ LET f == Top
           yaml_tree == files[f.yaml_stem]
           steps == [j \in 1..Len(yaml_tree.steps) |->
                       [run |-> <<>>, in |-> yaml_tree.steps[j].in, out |-> <<>>]]
           steps_keys == [j \in 1..Len(yaml_tree.steps) |-> yaml_tree.steps[j].key]
           subkeys == {steps_keys[j] : j \in 1..Len(steps_keys)} \ DOMAIN tools
           need == NeedsSubworkreq(steps_keys, subkeys, tools)
           merged == AddSubworkreq(yaml_tree.requirements)
       IN  IF need /\ merged.error
           THEN /\ fatal' = "ValueError"
                /\ UNCHANGED stack
           ELSE /\ fatal' = fatal
                /\ stack' = SetTop([f EXCEPT
                       !.pc = "step",
                       !.steps = steps,
                       !.steps_keys = steps_keys,
                       !.subkeys = subkeys,
                       !.requirements = IF need THEN merged.requirements
                                        ELSE yaml_tree.requirements])
    /\ UNCHANGED <<files, args, tools, vars_dollar_defs, ret, graph, arg,
                   phase, node_data_lst, fakeroot>>

-----------------------------------------------------------------------------
(* lines 76-90: a step that is a sub-workflow is compiled recursively.     *)

\* The cluster created at lines 86-88; `id` stands for the identity of the
\* Digraph object, one per frame.
Subgraph(step_key, nss) == [name |-> <<"cluster_">> \o step_key, id |-> nss]

AtStep(f) == f.pc = "step" /\ f.i < Len(f.steps_keys)

Recurse ==
    /\ Running
    /\ AtStep(Top)
    /\ Top.steps_keys[Top.i + 1] \in Top.subkeys
    /\ LET f == Top
           step_key == f.steps_keys[f.i + 1]
           stem == Stem(step_key)
           step_name_i == StepNameStr(f.yaml_stem, f.i, step_key)
           nss == f.namespaces \o <<step_name_i>>
       IN  IF ~files[stem].exists
           THEN /\ fatal' = "Exception: does not exist"
                /\ UNCHANGED stack
           ELSE /\ fatal' = fatal
                /\ stack' = Append(SetTop([f EXCEPT !.pc = "merge"]),
                                   Frame(stem, nss,
                                         Append(f.subgraphs, Subgraph(step_key, nss)),
                                         FALSE))
    /\ UNCHANGED <<files, args, tools, vars_dollar_defs, ret, graph, arg,
                   phase, node_data_lst, fakeroot>>

\* Variant: the child's inputs_workflow is copied into the parent's too
\* (the update that line 103 leaves commented out).
MergeInputsToo ==
    /\ Running
    /\ Top.pc = "merge"
    /\ ret.present
    /\ LET f == Top
           step_key == f.steps_keys[f.i + 1]
           stem == Stem(step_key)
           step_name_i == StepNameStr(f.yaml_stem, f.i, step_key)
           inputs_namespaced ==
               [j \in 1..Len(ret.inputs_file_workflow) |->
                   <<step_name_i \o <<SEP>> \o ret.inputs_file_workflow[j][1],
                     ret.inputs_file_workflow[j][2]>>]
       IN  /\ tools' = [s \in DOMAIN tools \cup {stem} |->
                          IF s = stem
                          THEN [run |-> stem \o <<".cwl">>, doc |-> ret.rose.data.doc]
                          ELSE tools[s]]
           /\ vars_dollar_defs' = Update(vars_dollar_defs, ret.vars_dollar_defs)
           /\ stack' = SetTop([f EXCEPT
                  !.pc = "tool",
                  !.recursive_data_list = Append(@, ret.rose),
                  !.sibling_subgraphs = Append(@, ret.rose.data.graph),
                  !.step_1_names = Append(@, ret.step_name_1),
                  !.inputs_workflow = Update(@, ret.inputs_workflow),
                  !.inputs_file_workflow = Update(@, inputs_namespaced),
                  !.vars_workflow_output_internal =
                      @ \o ret.vars_workflow_output_internal,
                  !.vars_dollar_calls = Update(@, ret.vars_dollar_calls)])
    /\ ret' = NoRet
    /\ UNCHANGED <<files, args, fatal, graph, arg, phase, node_data_lst, fakeroot>>

\* lines 92-109: the child has returned.
Merge ==
    /\ Running
    /\ Top.pc = "merge"
    /\ ret.present
    /\ LET f == Top
           step_key == f.steps_keys[f.i + 1]
           stem == Stem(step_key)
           step_name_i == StepNameStr(f.yaml_stem, f.i, step_key)
           subworkflow_data == ret
           recursive_data == subworkflow_data.rose
           sub_node_data == recursive_data.data
           inputs_namespaced ==
               [j \in 1..Len(subworkflow_data.inputs_file_workflow) |->
                   <<step_name_i \o <<SEP>> \o subworkflow_data.inputs_file_workflow[j][1],
                     subworkflow_data.inputs_file_workflow[j][2]>>]
       IN  /\ tools' = [s \in DOMAIN tools \cup {stem} |->
                          IF s = stem
                          THEN [run |-> stem \o <<".cwl">>, doc |-> sub_node_data.doc]
                          ELSE tools[s]]
           /\ vars_dollar_defs' = Update(vars_dollar_defs, subworkflow_data.vars_dollar_defs)
           /\ stack' = SetTop([f EXCEPT
                  !.pc = "tool",
                  !.recursive_data_list = Append(@, recursive_data),
                  !.sibling_subgraphs = Append(@, sub_node_data.graph),
                  !.step_1_names = Append(@, subworkflow_data.step_name_1),
                  !.inputs_file_workflow = Update(@, inputs_namespaced),
                  !.vars_workflow_output_internal =
                      @ \o subworkflow_data.vars_workflow_output_internal,
                  !.vars_dollar_calls = Update(@, subworkflow_data.vars_dollar_calls)])
    /\ ret' = NoRet
    /\ UNCHANGED <<files, args, fatal, graph, arg, phase, node_data_lst, fakeroot>>

-----------------------------------------------------------------------------
(* lines 111-171: the step's tool, its run tag, the provided and the       *)
(* required arguments, the step's node.                                    *)

\* lines 136-139
ArgsRequired(tool_i) ==
    LET in_tool == tool_i.inputs
    IN  IF tool_i.class = "CommandLineTool"
        THEN SelectSeq(Keys(in_tool),
                       LAMBDA a : ~(Get(in_tool, a).default = "truthy"
                                    \/ Last(Get(in_tool, a).type) = "?"))
        ELSE Keys(in_tool)

\* The first index >= from of an argument the required-arg loop does not
\* skip at line 274, or 0.
NextRequired(f, from) ==
    LET todo == {j \in from..Len(f.args_required) :
                    ~\E m \in 1..Len(f.args_provided) :
                        f.args_provided[m] = f.args_required[j]}
    IN  IF todo = {} THEN 0 ELSE CHOOSE j \in todo : \A m \in todo : j <= m

EnterRequired(f, from) ==
    IF NextRequired(f, from) = 0
    THEN [f EXCEPT !.pc = "out"]
    ELSE [f EXCEPT !.pc = "required", !.k = NextRequired(f, from)]

EnterProvided(f, from) ==
    IF from <= Len(f.args_provided)
    THEN [f EXCEPT !.pc = "provided", !.k = from]
    ELSE EnterRequired(f, 1)

\* lines 159-170: the name of the step's node, or <<>> when none is drawn.
StepNode(f, step_key, tool_i) ==
    LET step_name_i == StepNameStr(f.yaml_stem, f.i, step_key)
        nss == f.namespaces \o <<step_name_i>>
    IN  IF tool_i.class # "Workflow"
        THEN Join(nss)
        ELSE IF ~(step_key \in f.subkeys
                  /\ Len(f.namespaces) < args.graph_inline_depth)
        THEN Join(SubSeq(nss, 1, Min(Len(nss), 1 + args.graph_inline_depth)))
        ELSE <<>>

Tool ==
    /\ Running
    /\ \/ AtStep(Top) /\ Top.steps_keys[Top.i + 1] \notin Top.subkeys
       \/ Top.pc = "tool"
    /\ LET f == Top
           step_key == f.steps_keys[f.i + 1]
           stem == Stem(step_key)
           tool_i == tools[stem].doc
           run_path == tools[stem].run
           body == f.steps[f.i + 1]
           args_provided == Keys(body.in)
           args_required == ArgsRequired(tool_i)
           node == StepNode(f, step_key, tool_i)
       IN  IF tool_i.class \notin {"CommandLineTool", "Workflow"}
           THEN /\ fatal' = "Exception: Unknown class"
                /\ UNCHANGED <<stack, graph>>
           ELSE /\ fatal' = fatal
                /\ stack' = SetTop(EnterProvided(
                      [f EXCEPT
                         !.steps[f.i + 1].run = IF body.run = <<>> THEN run_path ELSE @,
                         !.steps[f.i + 1].in =
                             IF tool_i.class = "Workflow"
                             THEN [j \in 1..Len(args_required) |->
                                      <<args_required[j], args_required[j]>>]
                             ELSE @,
                         !.args_provided = args_provided,
                         !.args_required = args_required,
                         !.sub_args_provided =
                             SelectSeq(args_required,
                                       LAMBDA a : Has(f.vars_dollar_calls, a))],
                      1))
                /\ graph' = IF node = <<>> THEN graph
                            ELSE [graph EXCEPT !.nodes =
                                    @ \cup {[cluster |-> Last(f.subgraphs),
                                             name |-> node]}]
    /\ UNCHANGED <<files, args, tools, vars_dollar_defs, ret, arg, phase,
                   node_data_lst, fakeroot>>

-----------------------------------------------------------------------------
(* The lowest common ancestor of a definition site and a call site.        *)

RECURSIVE PartitionByLowestCommonAncestor(_, _)
\* utils.partition_by_lowest_common_ancestor(nss1, nss2): the longest
\* common prefix of the two paths, and what is left of nss1.
PartitionByLowestCommonAncestor(nss1, nss2) ==
    IF nss1 = <<>> \/ nss2 = <<>> THEN <<<<>>, nss1>>
    ELSE IF nss1[1] = nss2[1]
    THEN LET r == PartitionByLowestCommonAncestor(Tail(nss1), Tail(nss2))
         IN  <<<<nss1[1]>> \o r[1], r[2]>>
    ELSE <<<<>>, nss1>>

\* Variant: the call path is partitioned against itself.
LcaSplitSelf(nss_def_init, var, namespaces, step_name_i, arg_key) ==
    LET nss_def == nss_def_init \o Init_(Split(var))
        nss_call == namespaces \o <<step_name_i>> \o Init_(Split(arg_key))
        d == PartitionByLowestCommonAncestor(nss_def, nss_call)
        c == PartitionByLowestCommonAncestor(nss_call, nss_call)
    IN  [nss_def |-> nss_def, nss_call |-> nss_call,
         nss_def_inits |-> d[1], nss_def_tails |-> d[2],
         nss_call_inits |-> c[1], nss_call_tails |-> c[2]]

\* lines 210-217 and 285-292: the two paths and their partitions.
LcaSplit(nss_def_init, var, namespaces, step_name_i, arg_key) ==
    LET nss_def_embedded == Init_(Split(var))
        nss_call_embedded == Init_(Split(arg_key))
        nss_def == nss_def_init \o nss_def_embedded
        nss_call == namespaces \o <<step_name_i>> \o nss_call_embedded
        d == PartitionByLowestCommonAncestor(nss_def, nss_call)
        c == PartitionByLowestCommonAncestor(nss_call, nss_def)
    IN  [nss_def |-> nss_def, nss_call |-> nss_call,
         nss_def_inits |-> d[1], nss_def_tails |-> d[2],
         nss_call_inits |-> c[1], nss_call_tails |-> c[2]]

\* Variant: the reference is joined with the separator of port names.
VarSlashSep(nss_def_tails, var) == Join(nss_def_tails \o <<var>>)

\* line 243 and line 295
VarSlash(nss_def_tails, var) ==
    nss_def_tails[1] \o <<"/">> \o Join(Tail(nss_def_tails) \o <<var>>)

\* line 260: the (1-based) position in subgraphs of the cluster the
\* explicit edge is added to.
EdgeIndex(subgraphs, nss_def_inits) == Len(nss_def_inits) + 1

-----------------------------------------------------------------------------
(* lines 173-270: one iteration of the provided-arg loop.                  *)

NoLca ==
    [nss_def |-> <<>>, nss_call |-> <<>>, nss_def_inits |-> <<>>,
     nss_def_tails |-> <<>>, nss_call_inits |-> <<>>, nss_call_tails |-> <<>>]

\* The locals of the iteration, kept for the properties below.
ArgRec(kind, f, arg_key, arg_val, lca) ==
    LET step_name_i == StepNameStr(f.yaml_stem, f.i, f.steps_keys[f.i + 1])
    IN  [kind |-> kind, is_root |-> f.is_root, namespaces |-> f.namespaces,
         subgraphs |-> f.subgraphs, i |-> f.i,
         step_name_i |-> step_name_i, arg_key |-> arg_key, arg_val |-> arg_val,
         in_name |-> step_name_i \o <<SEP>> \o arg_key, lca |-> lca]

\* Variant: the placeholder input is added but the step keeps the token.
UnresolvedCallKeepToken(f, arg_key, in_name, in_type) ==
    IF f.is_root
    THEN [fatal |-> NoError,
          f |-> [f EXCEPT !.inputs_workflow = Put(@, in_name, [type |-> in_type])]]
    ELSE [fatal |-> NoError, f |-> f]

\* Variant: a call token without a definition is fatal below the root.
UnresolvedCallFatal(f, arg_key, in_name, in_type) ==
    IF f.is_root
    THEN [fatal |-> NoError,
          f |-> [f EXCEPT !.inputs_workflow = Put(@, in_name, [type |-> in_type]),
                          !.steps[f.i + 1].in = Put(@, arg_key, in_name)]]
    ELSE [fatal |-> "Exception: No definition found", f |-> f]

\* lines 196-206: a call token without a definition.
UnresolvedCall(f, arg_key, in_name, in_type) ==
    IF f.is_root
    THEN [fatal |-> NoError,
          f |-> [f EXCEPT !.inputs_workflow = Put(@, in_name, [type |-> in_type]),
                          !.steps[f.i + 1].in = Put(@, arg_key, in_name)]]
    ELSE [fatal |-> NoError, f |-> f]

\* Variant: a second definition replaces the first.
DefineOverwrite(f, defs, arg_key, arg_val, in_name, in_type) ==
    LET step_name_i == StepNameStr(f.yaml_stem, f.i, f.steps_keys[f.i + 1])
    IN  [error |-> FALSE,
         f |-> [f EXCEPT
                  !.inputs_workflow = Put(@, in_name, [type |-> in_type]),
                  !.inputs_file_workflow = Put(@, in_name, <<arg_val, in_type>>),
                  !.steps[f.i + 1].in = Put(@, arg_key, in_name)],
         defs |-> Put(defs, arg_val,
                      <<f.namespaces \o <<step_name_i>>, arg_key>>)]

\* Variant: a definition goes back to the earlier steps of its frame and
\* wires the calls of its name that were written there.
DefineRevisit(f, defs, arg_key, arg_val, in_name, in_type) ==
    LET step_name_i == StepNameStr(f.yaml_stem, f.i, f.steps_keys[f.i + 1])
        written(j) == files[f.yaml_stem].steps[j].in
        revisit(j, body) ==
            [body EXCEPT !.in =
                [m \in 1..Len(body.in) |->
                    IF /\ Has(written(j), body.in[m][1])
                       /\ Get(written(j), body.in[m][1]) = <<"*">> \o arg_val
                    THEN <<body.in[m][1], step_name_i \o <<"/">> \o arg_key>>
                    ELSE body.in[m]]]
        g == [f EXCEPT !.steps = [j \in 1..Len(f.steps) |->
                                     IF j <= f.i THEN revisit(j, f.steps[j])
                                     ELSE f.steps[j]]]
    IN  IF ~Has(defs, arg_val)
        THEN [error |-> FALSE,
              f |-> [g EXCEPT
                       !.inputs_workflow = Put(@, in_name, [type |-> in_type]),
                       !.inputs_file_workflow = Put(@, in_name, <<arg_val, in_type>>),
                       !.steps[f.i + 1].in = Put(@, arg_key, in_name)],
              defs |-> Put(defs, arg_val,
                           <<f.namespaces \o <<step_name_i>>, arg_key>>)]
        ELSE [error |-> TRUE, f |-> f, defs |-> defs]

\* lines 183-192: a definition token. error is set for a second definition.
Define(f, defs, arg_key, arg_val, in_name, in_type) ==
    LET step_name_i == StepNameStr(f.yaml_stem, f.i, f.steps_keys[f.i + 1])
    IN  IF ~Has(defs, arg_val)
        THEN [error |-> FALSE,
              f |-> [f EXCEPT
                       !.inputs_workflow = Put(@, in_name, [type |-> in_type]),
                       !.inputs_file_workflow = Put(@, in_name, <<arg_val, in_type>>),
                       !.steps[f.i + 1].in = Put(@, arg_key, in_name)],
              defs |-> Put(defs, arg_val,
                           <<f.namespaces \o <<step_name_i>>, arg_key>>)]
        ELSE [error |-> TRUE, f |-> f, defs |-> defs]

\* lines 208-261: a call token with a definition.
ResolvedCall(f, defs, arg_key, arg_val, in_name, in_type) ==
    LET step_name_i == StepNameStr(f.yaml_stem, f.i, f.steps_keys[f.i + 1])
        nss_def_init == Get(defs, arg_val)[1]
        var == Get(defs, arg_val)[2]
        lca == LcaSplit(nss_def_init, var, f.namespaces, step_name_i, arg_key)
        label == Last(Split(var))
        idx == EdgeIndex(f.subgraphs, lca.nss_def_inits)
        edge == [cluster |-> f.subgraphs[idx], tail |-> lca.nss_def,
                 head |-> lca.nss_call, label |-> label]
        out(kind, err, g, e) ==
            [kind |-> kind, fatal |-> err, f |-> g, edges |-> e, lca |-> lca]
    IN  IF lca.nss_def_inits # lca.nss_call_inits
        THEN out("assert", "AssertionError", f, {})
        ELSE IF Len(lca.nss_call_tails) > 1
        THEN IF idx > Len(f.subgraphs)
             THEN out("forward", "IndexError", f, {})
             ELSE out("forward", NoError,
                      [f EXCEPT
                         !.inputs_workflow = Put(@, in_name, [type |-> in_type]),
                         !.steps[f.i + 1].in = Put(@, arg_key, in_name),
                         !.vars_dollar_calls = Put(@, in_name, Get(defs, arg_val))],
                      {edge})
        ELSE IF Len(lca.nss_call_tails) = 1
        THEN IF lca.nss_def_tails = <<>> \/ idx > Len(f.subgraphs)
             THEN out("direct", "IndexError", f, {})
             ELSE out("direct", NoError,
                      [f EXCEPT !.steps[f.i + 1].in =
                                   Put(@, arg_key, VarSlash(lca.nss_def_tails, var))],
                      {edge})
        ELSE out("tail0", "Exception: len(nss_call_tails) == 0", f, {})

\* Variant: the input of a literal is named from the root, with the
\* frame's namespace path in front.
LiteralAbsolute(f, arg_key, arg_val, in_name, in_type) ==
    [f EXCEPT !.inputs_workflow =
                 Put(@, Join(f.namespaces \o <<in_name>>), [type |-> in_type]),
              !.inputs_file_workflow =
                 Put(@, Join(f.namespaces \o <<in_name>>), <<arg_val, in_type>>),
              !.steps[f.i + 1].in = Put(@, arg_key, in_name)]

\* lines 262-270: a literal value.
Literal(f, arg_key, arg_val, in_name, in_type) ==
    [f EXCEPT !.inputs_workflow = Put(@, in_name, [type |-> in_type]),
              !.inputs_file_workflow = Put(@, in_name, <<arg_val, in_type>>),
              !.steps[f.i + 1].in = Put(@, arg_key, in_name)]

Provided ==
    /\ Running
    /\ Top.pc = "provided"
    /\ LET f == Top
           step_key == f.steps_keys[f.i + 1]
           in_tool == tools[Stem(step_key)].doc.inputs
           step_name_i == StepNameStr(f.yaml_stem, f.i, step_key)
           arg_key == f.args_provided[f.k]
           arg_val == Get(f.steps[f.i + 1].in, arg_key)
           in_name == step_name_i \o <<SEP>> \o arg_key
           in_type == Remove(Get(in_tool, arg_key).type, "?")
           next(g) == SetTop(EnterProvided(g, f.k + 1))
       IN  IF arg_val[1] = "&"
           THEN LET r == Define(f, vars_dollar_defs, arg_key, Tail(arg_val),
                                in_name, in_type)
                IN  /\ fatal' = IF r.error THEN "Exception: Multiple definitions"
                                ELSE fatal
                    /\ stack' = IF r.error THEN stack ELSE next(r.f)
                    /\ vars_dollar_defs' = r.defs
                    /\ arg' = ArgRec(IF r.error THEN "duplicate" ELSE "define",
                                     f, arg_key, Tail(arg_val), NoLca)
                    /\ UNCHANGED graph
           ELSE IF arg_val[1] = "*"
           THEN IF ~Has(vars_dollar_defs, Tail(arg_val))
                THEN LET r == UnresolvedCall(f, arg_key, in_name, in_type)
                     IN  /\ fatal' = r.fatal
                         /\ stack' = IF r.fatal # NoError THEN stack ELSE next(r.f)
                         /\ arg' = ArgRec("unresolved", f, arg_key, Tail(arg_val), NoLca)
                         /\ UNCHANGED <<vars_dollar_defs, graph>>
                ELSE LET r == ResolvedCall(f, vars_dollar_defs, arg_key,
                                           Tail(arg_val), in_name, in_type)
                     IN  /\ fatal' = r.fatal
                         /\ stack' = IF r.fatal # NoError THEN stack ELSE next(r.f)
                         /\ graph' = [graph EXCEPT !.edges = @ \cup r.edges]
                         /\ arg' = ArgRec(r.kind, f, arg_key, Tail(arg_val), r.lca)
                         /\ UNCHANGED vars_dollar_defs
           ELSE /\ stack' = next(Literal(f, arg_key, arg_val, in_name, in_type))
                /\ arg' = ArgRec("literal", f, arg_key, arg_val, NoLca)
                /\ graph' =
                     IF args.graph_show_inputs
                     THEN [graph EXCEPT
                             !.nodes = @ \cup
                                 {[cluster |-> Last(f.subgraphs),
                                   name |-> Join(f.namespaces \o <<step_name_i, arg_key>>)]}]
                     ELSE graph
                /\ UNCHANGED <<fatal, vars_dollar_defs>>
    /\ UNCHANGED <<files, args, tools, ret, phase, node_data_lst, fakeroot>>

-----------------------------------------------------------------------------
(* lines 272-308: one iteration of the required-arg loop, for an argument  *)
(* that was not provided.                                                  *)

\* The type of input port p of a tool: a CommandLineTool declares
\* {type: ...}; a compiled workflow lists the bare type (lines 343-350).
InputType(tool_i, p) == Get(tool_i.inputs, p).type

Max(S) == CHOOSE x \in S : \A y \in S : y <= x

Least(S) == CHOOSE x \in S : \A y \in S : x <= y

\* inference.perform_edge_inference: wire the port to the most recent
\* earlier step of the frame with an output of the same type, else make it
\* an input of the workflow unless the inputs file already holds it.
PerformEdgeInference(f, arg_key, registry) ==
    LET step_key == f.steps_keys[f.i + 1]
        tool_i == registry[Stem(step_key)].doc
        step_name_i == StepNameStr(f.yaml_stem, f.i, step_key)
        in_name == step_name_i \o <<SEP>> \o arg_key
        in_type == Remove(InputType(tool_i, arg_key), "?")
        outs(j) == registry[Stem(f.steps_keys[j + 1])].doc.outputs
        match(j) == {q \in 1..Len(outs(j)) :
                        Remove(outs(j)[q][2].type, "?") = in_type}
        js == {j \in 0..(f.i - 1) : match(j) # {}}
    IN  IF js # {}
        THEN LET j == Max(js)
                 out_var == StepNameStr(f.yaml_stem, j, f.steps_keys[j + 1])
                            \o <<"/">> \o outs(j)[Least(match(j))][1]
             IN  [f EXCEPT !.steps[f.i + 1].in = Put(@, arg_key, out_var),
                           !.vars_workflow_output_internal = Append(@, out_var)]
        ELSE IF ~Has(f.inputs_file_workflow, in_name)
        THEN [f EXCEPT !.inputs_workflow = Put(@, in_name, [type |-> in_type]),
                       !.steps[f.i + 1].in = Put(@, arg_key, in_name)]
        ELSE f

\* Variant: the input found in $calls is left as the child's input name.
WireCallKeep(f, arg_key) ==
    LET step_name_i == StepNameStr(f.yaml_stem, f.i, f.steps_keys[f.i + 1])
        nss_def_init == Get(f.vars_dollar_calls, arg_key)[1]
        var == Get(f.vars_dollar_calls, arg_key)[2]
    IN  [fatal |-> NoError, f |-> f,
         lca |-> LcaSplit(nss_def_init, var, f.namespaces, step_name_i, arg_key)]

\* lines 283-297: an input of a sub-workflow step that $calls knows.
WireCall(f, arg_key) ==
    LET step_name_i == StepNameStr(f.yaml_stem, f.i, f.steps_keys[f.i + 1])
        nss_def_init == Get(f.vars_dollar_calls, arg_key)[1]
        var == Get(f.vars_dollar_calls, arg_key)[2]
        lca == LcaSplit(nss_def_init, var, f.namespaces, step_name_i, arg_key)
    IN  IF lca.nss_def_inits # lca.nss_call_inits
        THEN [fatal |-> "AssertionError", f |-> f, lca |-> lca]
        ELSE IF lca.nss_def_tails = <<>>
        THEN [fatal |-> "IndexError", f |-> f, lca |-> lca]
        ELSE [fatal |-> NoError,
              f |-> [f EXCEPT !.steps[f.i + 1].in =
                                 Put(@, arg_key, VarSlash(lca.nss_def_tails, var))],
              lca |-> lca]

Required ==
    /\ Running
    /\ Top.pc = "required"
    /\ LET f == Top
           arg_key == f.args_required[f.k]
           next(g) == SetTop(EnterRequired(g, f.k + 1))
       IN  IF \E m \in 1..Len(f.sub_args_provided) : f.sub_args_provided[m] = arg_key
           THEN LET r == WireCall(f, arg_key)
                IN  /\ fatal' = r.fatal
                    /\ stack' = IF r.fatal # NoError THEN stack ELSE next(r.f)
                    /\ arg' = ArgRec("wired", f, arg_key, <<>>, r.lca)
           ELSE /\ stack' = next(PerformEdgeInference(f, arg_key, tools))
                /\ arg' = ArgRec("inferred", f, arg_key, <<>>, NoLca)
                /\ UNCHANGED fatal
    /\ UNCHANGED <<files, args, tools, vars_dollar_defs, ret, graph, phase,
                   node_data_lst, fakeroot>>

\* lines 313-315: the step's out tags.
Out ==
    /\ Running
    /\ Top.pc = "out"
    /\ LET f == Top
           tool_i == tools[Stem(f.steps_keys[f.i + 1])].doc
       IN  stack' = SetTop([f EXCEPT !.steps[f.i + 1].out = Keys(tool_i.outputs),
                                     !.i = @ + 1,
                                     !.pc = "step"])
    /\ UNCHANGED <<files, args, tools, vars_dollar_defs, ret, fatal, graph,
                   arg, phase, node_data_lst, fakeroot>>

-----------------------------------------------------------------------------
(* lines 319-425: the frame assembles its document and returns.            *)

RECURSIVE Dedup(_)
\* list(set(lst)), in the order of first occurrence
Dedup(lst) ==
    IF lst = <<>> THEN <<>>
    ELSE LET r == Dedup(Init_(lst))
         IN  IF \E j \in 1..Len(r) : r[j] = Last(lst) THEN r ELSE Append(r, Last(lst))

Reverse(lst) == [j \in 1..Len(lst) |-> lst[Len(lst) + 1 - j]]

\* lines 331-339
StepName1(f) ==
    IF f.steps_keys[1] \in f.subkeys
    THEN f.step_1_names[1]
    ELSE <<"\"">> \o Join(f.namespaces \o <<StepNameStr(f.yaml_stem, 1, f.steps_keys[1])>>)
         \o <<"\"">>

\* lines 342-350: the compiled inputs. bare marks a value that is the
\* type itself, not a mapping.
CompiledInputs(inputs_workflow) ==
    [j \in 1..Len(inputs_workflow) |->
        LET k == inputs_workflow[j][1]
            v == inputs_workflow[j][2]
        IN  IF Contains(k, "mdin") /\ Contains(v.type, "File")
            THEN <<k, [bare |-> FALSE, type |-> v.type,
                       format |-> <<"https://edamontology.org/format_2330">>]>>
            ELSE <<k, [bare |-> TRUE, type |-> v.type, format |-> <<>>]>>]

RECURSIVE OutputsOfStepAll(_, _, _, _, _)
\* Variant: no output is left out for its name.
OutputsOfStepAll(step_name_i, out_keys, q, internal, acc) ==
    IF q > Len(out_keys) THEN acc
    ELSE LET out_key == out_keys[q]
             out_var == step_name_i \o <<"/">> \o out_key
             out_name == step_name_i \o <<SEP>> \o out_key
             skip == /\ \E j \in 1..Len(internal) : internal[j] = out_var
                     /\ ~args.cwl_output_intermediate_files
         IN  OutputsOfStepAll(step_name_i, out_keys, q + 1, internal,
                 IF skip THEN acc
                 ELSE Put(acc, out_name,
                          [type |-> <<"File">>, outputSource |-> out_var]))

RECURSIVE OutputsOfStep(_, _, _, _, _)
\* lines 358-394, for the out keys of one step from position q on
OutputsOfStep(step_name_i, out_keys, q, internal, acc) ==
    IF q > Len(out_keys) THEN acc
    ELSE LET out_key == out_keys[q]
             out_var == step_name_i \o <<"/">> \o out_key
             out_name == step_name_i \o <<SEP>> \o out_key
             skip == \/ Contains(out_key, "dhdl") \/ Contains(out_key, "xtc")
                     \/ /\ \E j \in 1..Len(internal) : internal[j] = out_var
                        /\ ~args.cwl_output_intermediate_files
         IN  OutputsOfStep(step_name_i, out_keys, q + 1, internal,
                 IF skip THEN acc
                 ELSE Put(acc, out_name,
                          [type |-> <<"File">>, outputSource |-> out_var]))

RECURSIVE CompiledOutputs(_, _, _, _)
\* lines 354-396, for the steps from index i on
CompiledOutputs(f, i, internal, acc) ==
    IF i >= Len(f.steps_keys) THEN acc
    ELSE CompiledOutputs(f, i + 1, internal,
             OutputsOfStep(StepNameStr(f.yaml_stem, i, f.steps_keys[i + 1]),
                           f.steps[i + 1].out, 1, internal, acc))

RECURSIVE StepsDictByKey(_, _, _)
\* Variant: the steps are keyed by their input keys.
StepsDictByKey(f, i, acc) ==
    IF i >= Len(f.steps_keys) THEN acc
    ELSE StepsDictByKey(f, i + 1, Put(acc, f.steps_keys[i + 1], f.steps[i + 1]))

RECURSIVE StepsDict(_, _, _)
\* lines 400-405, for the steps from index i on
StepsDict(f, i, acc) ==
    IF i >= Len(f.steps_keys) THEN acc
    ELSE StepsDict(f, i + 1,
                   Put(acc, StepNameStr(f.yaml_stem, i, f.steps_keys[i + 1]),
                       f.steps[i + 1]))

\* lines 408-413: the inputs file
YamlInputs(inputs_file_workflow) ==
    [j \in 1..Len(inputs_file_workflow) |->
        LET key == inputs_file_workflow[j][1]
            val == inputs_file_workflow[j][2][1]
            in_type == inputs_file_workflow[j][2][2]
        IN  IF Contains(in_type, "File")
            THEN <<key, [class |-> "File", path |-> val,
                         format |-> <<"https://edamontology.org/format_2330">>]>>
            ELSE <<key, [class |-> "scalar", path |-> val, format |-> <<>>]>>]

\* The compiled document of a frame whose steps are all processed.
CompiledDoc(f) ==
    [cwlVersion |-> "v1.0", class |-> "Workflow",
     requirements |-> f.requirements,
     inputs |-> CompiledInputs(f.inputs_workflow),
     outputs |-> CompiledOutputs(f, 0, Dedup(f.vars_workflow_output_internal), <<>>),
     steps |-> StepsDict(f, 0, <<>>)]

\* lines 319-330: the clusters of the children and their rank alignment
FinishGraph(f, g) ==
    LET inline == Len(f.namespaces) < args.graph_inline_depth
        display == SelectSeq(f.step_1_names,
                             LAMBDA name : Len(Split(name)) < 2 + args.graph_inline_depth)
    IN  [g EXCEPT
           !.subgraphs = IF inline /\ f.sibling_subgraphs # <<>>
                         THEN @ \cup {[cluster |-> Last(f.subgraphs),
                                       children |-> Reverse(f.sibling_subgraphs)]}
                         ELSE @,
           !.ranks = IF inline /\ Len(display) > 1
                     THEN @ \cup {[cluster |-> Last(f.subgraphs), names |-> display]}
                     ELSE @]

Finish ==
    /\ Running
    /\ Top.pc = "step"
    /\ Top.i = Len(Top.steps_keys)
    /\ LET f == Top
           node_data == [name |-> f.yaml_stem, doc |-> CompiledDoc(f),
                         yaml_inputs |-> YamlInputs(f.inputs_file_workflow),
                         graph |-> Last(f.subgraphs),
                         namespaces |-> f.namespaces]
       IN  /\ ret' = [present |-> TRUE,
                      rose |-> [data |-> node_data, children |-> f.recursive_data_list],
                      inputs_workflow |-> f.inputs_workflow,
                      inputs_file_workflow |-> f.inputs_file_workflow,
                      vars_workflow_output_internal |->
                          Dedup(f.vars_workflow_output_internal),
                      vars_dollar_defs |-> vars_dollar_defs,
                      vars_dollar_calls |-> f.vars_dollar_calls,
                      step_name_1 |-> StepName1(f)]
           /\ graph' = FinishGraph(f, graph)
    /\ stack' = Init_(stack)
    /\ UNCHANGED <<files, args, tools, vars_dollar_defs, fatal, arg, phase,
                   node_data_lst, fakeroot>>

-----------------------------------------------------------------------------
(* tests/test_examples.py, test_cwl_embedding_independence: the root is    *)
(* compiled, then every sub-workflow is compiled again as if it were root. *)

RECURSIVE FlattenRoseTree(_)
RECURSIVE FlattenRoseTrees(_)
\* utils.flatten_rose_tree
FlattenRoseTree(rose) == <<rose.data>> \o FlattenRoseTrees(rose.children)

FlattenRoseTrees(lst) ==
    IF lst = <<>> THEN <<>>
    ELSE FlattenRoseTree(lst[1]) \o FlattenRoseTrees(Tail(lst))

\* lines 161-164 of the test
EmbeddedDone ==
    /\ fatal = NoError
    /\ phase = "root"
    /\ stack = <<>>
    /\ ret.present
    /\ node_data_lst' = FlattenRoseTree(ret.rose)
    /\ phase' = "fakeroot"
    /\ ret' = NoRet
    /\ UNCHANGED <<files, args, tools, vars_dollar_defs, stack, fatal, graph,
                   arg, fakeroot>>

\* lines 175-190 of the test
StartFakeroot ==
    /\ fatal = NoError
    /\ phase = "fakeroot"
    /\ stack = <<>>
    /\ ~ret.present
    /\ Len(fakeroot) < Len(node_data_lst) - 1
    /\ LET sub_name == node_data_lst[Len(fakeroot) + 2].name
       IN  stack' = <<Frame(sub_name, <<>>, <<RootGraph(sub_name)>>, TRUE)>>
    /\ vars_dollar_defs' = <<>>
    /\ tools' = ToolsInit
    /\ graph' = [nodes |-> {}, edges |-> {}, subgraphs |-> {}, ranks |-> {}]
    /\ arg' = NoArg
    /\ UNCHANGED <<files, args, ret, fatal, phase, node_data_lst, fakeroot>>

\* lines 191-192 of the test
FakerootDone ==
    /\ fatal = NoError
    /\ phase = "fakeroot"
    /\ stack = <<>>
    /\ ret.present
    /\ fakeroot' = Append(fakeroot, ret.rose.data.doc)
    /\ ret' = NoRet
    /\ UNCHANGED <<files, args, tools, vars_dollar_defs, stack, fatal, graph,
                   arg, phase, node_data_lst>>

Next ==
    \/ Start
    \/ Recurse
    \/ Merge
    \/ Tool
    \/ Provided
    \/ Required
    \/ Out
    \/ Finish
    \/ EmbeddedDone
    \/ StartFakeroot
    \/ FakerootDone

Spec == Init /\ [][Next]_vars

-----------------------------------------------------------------------------
(* Properties.                                                             *)

\* utils.recursively_delete_dict_key('run', doc), seen the way Python's ==
\* compares mappings: without the order of insertion.
DocView(doc) ==
    [cwlVersion |-> doc.cwlVersion, class |-> doc.class,
     requirements |-> [present |-> doc.requirements.present,
                       d |-> Items(doc.requirements.d)],
     inputs |-> Items(doc.inputs),
     outputs |-> Items(doc.outputs),
     steps |-> {<<doc.steps[j][1],
                  [in |-> Items(doc.steps[j][2].in), out |-> doc.steps[j][2].out]>> :
                j \in 1..Len(doc.steps)}]

\* The provided argument the top frame is about to process.
AtProvided == Running /\ Top.pc = "provided"

CurKey == Top.args_provided[Top.k]

CurVal == Get(Top.steps[Top.i + 1].in, CurKey)

CurStepName == StepNameStr(Top.yaml_stem, Top.i, Top.steps_keys[Top.i + 1])

CurInName == CurStepName \o <<SEP>> \o CurKey

CurToolType == Get(tools[Stem(Top.steps_keys[Top.i + 1])].doc.inputs, CurKey).type

AtDefine == AtProvided /\ CurVal[1] = "&"

AtCall == AtProvided /\ CurVal[1] = "*"

AtUnresolved == AtCall /\ ~Has(vars_dollar_defs, Tail(CurVal))

\* The frame that was on top, after the step.
TopAfter == stack'[Len(stack)]

\* C1 (as claimed): every sub-workflow's document embedded in the compilation
\* of the root equals, run keys deleted, the document of compiling that
\* sub-workflow alone as a root.
C1_EmbeddingIndependence ==
    \A n \in 1..Len(fakeroot) :
        DocView(node_data_lst[n + 1].doc) = DocView(fakeroot[n])

\* C2: a definition token for a name $defs already holds aborts the
\* compilation and leaves $defs alone; a first definition records the
\* defining step's path and port; and no step of a compilation changes the
\* entry of a name once it is defined.
C2_DefinitionUniqueness ==
    [][/\ (AtDefine /\ Has(vars_dollar_defs, Tail(CurVal)))
            => (fatal' # NoError /\ vars_dollar_defs' = vars_dollar_defs)
       /\ (AtDefine /\ ~Has(vars_dollar_defs, Tail(CurVal)))
            => /\ Has(vars_dollar_defs', Tail(CurVal))
               /\ Get(vars_dollar_defs', Tail(CurVal))
                    = <<Top.namespaces \o <<CurStepName>>, CurKey>>
       /\ stack # <<>>
            => \A x \in KeySet(vars_dollar_defs) :
                  /\ Has(vars_dollar_defs', x)
                  /\ Get(vars_dollar_defs', x) = Get(vars_dollar_defs, x)
      ]_vars

\* C2 witness: a second definition, written in another frame than the
\* first, has aborted the compilation.
C2_Witness ==
    /\ arg.kind = "duplicate"
    /\ fatal = "Exception: Multiple definitions"
    /\ Get(vars_dollar_defs, arg.arg_val)[1] # arg.namespaces \o <<arg.step_name_i>>
    /\ Len(Get(vars_dollar_defs, arg.arg_val)[1]) # Len(arg.namespaces) + 1

\* C3: a call token without a definition, processed in the root frame,
\* does not abort; the frame gets the input <step>___<port> with the port's
\* type without '?', the step's value becomes that name, and
\* inputs_file_workflow and $calls are left alone.
C3_RecoverableAtRoot ==
    [][(AtUnresolved /\ Top.is_root)
         => /\ fatal' = NoError
            /\ Has(TopAfter.inputs_workflow, CurInName)
            /\ Get(TopAfter.inputs_workflow, CurInName)
                 = [type |-> Remove(CurToolType, "?")]
            /\ Get(TopAfter.steps[Top.i + 1].in, CurKey) = CurInName
            /\ TopAfter.inputs_file_workflow = Top.inputs_file_workflow
            /\ TopAfter.vars_dollar_calls = Top.vars_dollar_calls
      ]_vars

\* C3 witness: the root was compiled to a document although a call token
\* on an optional port had no definition; the placeholder is among the
\* document's inputs.
C3_Witness ==
    /\ phase = "fakeroot"
    /\ fatal = NoError
    /\ \E j \in 1..Len(files[FileStem(1)].steps) :
          /\ files[FileStem(1)].steps[j].in = << <<O, CALLTOK>> >>
          /\ Has(node_data_lst[1].doc.inputs,
                 StepNameStr(FileStem(1), j - 1, TOOLA) \o <<SEP>> \o O)
          /\ Get(node_data_lst[1].doc.inputs,
                 StepNameStr(FileStem(1), j - 1, TOOLA) \o <<SEP>> \o O).type
               = <<"string">>

\* C4 (as claimed): a call token without a definition, processed in a
\* non-root frame, gets the placeholder input <step>___<port> and is not
\* left in the step as the raw token.
C4_NonRootPlaceholder ==
    [][(AtUnresolved /\ ~Top.is_root)
         => /\ fatal' = NoError
            /\ Has(TopAfter.inputs_workflow, CurInName)
            /\ Get(TopAfter.steps[Top.i + 1].in, CurKey) = CurInName
      ]_vars

\* Scenario S6: a call token in a sub-workflow, no definition token in any
\* file, every referenced file on disk, and a requirements header the merge
\* accepts.
S6Tree ==
    /\ \E d \in 2..MaxDepth : \E j \in 1..Len(files[FileStem(d)].steps) :
          Has(files[FileStem(d)].steps[j].in, O)
    /\ \A d \in 1..MaxDepth : \A j \in 1..Len(files[FileStem(d)].steps) :
          /\ ~Has(files[FileStem(d)].steps[j].in, X)
             \/ Get(files[FileStem(d)].steps[j].in, X) # DEFTOK
          /\ Stem(files[FileStem(d)].steps[j].key) \in FileStems
               => files[Stem(files[FileStem(d)].steps[j].key)].exists
    /\ ~files[FileStem(1)].requirements.present

AtFinish == Running /\ Top.pc = "step" /\ Top.i = Len(Top.steps_keys)

\* C6: the steps mapping a frame returns has one entry per input step, the
\* i-th keyed step_name(yaml_stem, i, key of the i-th input step) with the
\* processed body of that step, and no two entries share a key.
C6_StepOrder ==
    [][AtFinish
         => LET doc == ret'.rose.data.doc
                input == files[Top.yaml_stem].steps
            IN  /\ Len(doc.steps) = Len(input)
                /\ \A j \in 1..Len(input) :
                      /\ j <= Len(doc.steps)
                      /\ doc.steps[j][1] = StepNameStr(Top.yaml_stem, j - 1, input[j].key)
                      /\ doc.steps[j][2] = Top.steps[j]
                /\ \A j1, j2 \in 1..Len(doc.steps) :
                      j1 # j2 => doc.steps[j1][1] # doc.steps[j2][1]
      ]_vars

\* C6 witness: a frame has returned a document for two steps on the same
\* tool.
C6_Witness ==
    /\ ret.present
    /\ Len(ret.rose.data.doc.steps) = 2
    /\ files[ret.rose.data.name].steps[1].key = files[ret.rose.data.name].steps[2].key

IsPrefix(p, q) == Len(p) <= Len(q) /\ SubSeq(q, 1, Len(p)) = p

\* The longest common prefix of two paths, element by element.
CommonPrefix(a, b) ==
    LET n == Max({m \in 0..Min(Len(a), Len(b)) : \A j \in 1..m : a[j] = b[j]})
    IN  SubSeq(a, 1, n)

\* The paths cut out of the definition path and the call path of a call site.
PathsOf(lca) ==
    UNION {{SubSeq(p, a, b) : a \in 1..(Len(p) + 1), b \in 0..Len(p)} :
             p \in {lca.nss_def, lca.nss_call}}

ResolvedKinds == {"forward", "direct", "tail0", "assert", "wired"}

\* C7: partition(A, B) and partition(B, A) return the same common part, the
\* longest common prefix of A and B, and common with the tail gives the path
\* back; at both call sites the two common parts are equal, so the
\* assertion holds.
C7_LcaSymmetry ==
    /\ fatal # "AssertionError"
    /\ arg.kind \in ResolvedKinds
         => /\ arg.lca.nss_def_inits = arg.lca.nss_call_inits
            /\ arg.lca.nss_def_inits = CommonPrefix(arg.lca.nss_def, arg.lca.nss_call)
            /\ arg.lca.nss_def_inits \o arg.lca.nss_def_tails = arg.lca.nss_def
            /\ arg.lca.nss_call_inits \o arg.lca.nss_call_tails = arg.lca.nss_call
            /\ \A A, B \in PathsOf(arg.lca) :
                  LET pa == PartitionByLowestCommonAncestor(A, B)
                      pb == PartitionByLowestCommonAncestor(B, A)
                  IN  /\ pa[1] = pb[1]
                      /\ pa[1] = CommonPrefix(A, B)
                      /\ pa[1] \o pa[2] = A
                      /\ pb[1] \o pb[2] = B

\* C7 witness: the required-arg loop has split a definition path and a
\* call path that share a non-empty prefix.
C7_Witness ==
    /\ arg.kind = "wired"
    /\ arg.lca.nss_def_inits # <<>>
    /\ arg.lca.nss_def_tails # <<>>
    /\ arg.lca.nss_call_tails # <<>>

\* C8 (as claimed): a frame that references a sub-workflow or a Workflow
\* tool has the input's requirements plus exactly one
\* SubworkflowFeatureRequirement, and the merge never fails.
C8_RequirementsMerge ==
    /\ fatal # "ValueError"
    /\ \A d \in 1..Len(stack) :
          LET f == stack[d]
              input == files[f.yaml_stem].requirements
          IN  (f.pc # "start" /\ NeedsSubworkreq(f.steps_keys, f.subkeys, tools))
                => /\ f.requirements.present
                   /\ Items(f.requirements.d)
                        = Items(input.d) \cup {<<SUBWORKREQ, [class |-> SUBWORKREQ]>>}
                   /\ Cardinality({j \in 1..Len(f.requirements.d) :
                                     f.requirements.d[j][1] = SUBWORKREQ}) = 1

\* C9 (as claimed): for a call token with a definition the call tail has
\* length >= 1; the len(nss_call_tails) == 0 branch is never reached.
C9_CallTailNonEmpty ==
    /\ fatal # "Exception: len(nss_call_tails) == 0"
    /\ arg.kind \in {"forward", "direct", "tail0"}
         => Len(arg.lca.nss_call_tails) >= 1

\* C10 (as claimed): for a call token with a definition, |common| is at
\* most the length of the frame's namespace path, the edge from the
\* definition to the call is in the cluster subgraphs[|common|], and that
\* cluster is the cluster of the frame whose path is common.
C10_EdgeAtLca ==
    arg.kind \in {"forward", "direct", "tail0"}
      => /\ Len(arg.lca.nss_def_inits) <= Len(arg.namespaces)
         /\ arg.subgraphs[Len(arg.lca.nss_def_inits) + 1].id = arg.lca.nss_def_inits
         /\ [cluster |-> arg.subgraphs[Len(arg.lca.nss_def_inits) + 1],
             tail |-> arg.lca.nss_def, head |-> arg.lca.nss_call,
             label |-> Last(Split(Get(vars_dollar_defs, arg.arg_val)[2]))]
              \in graph.edges
         /\ \A e \in graph.edges :
               IsPrefix(e.cluster.id, e.tail) /\ IsPrefix(e.cluster.id, e.head)

\* The path of the definition the call token about to be processed names.
CurDefPath == Get(vars_dollar_defs, Tail(CurVal))[1]

CurDefPort == Get(vars_dollar_defs, Tail(CurVal))[2]

\* The call token about to be processed names a definition made by an
\* earlier step of the top frame or inside the subtree of an earlier step.
AtCallOfEarlierStep ==
    /\ AtCall
    /\ Has(vars_dollar_defs, Tail(CurVal))
    /\ Len(CurDefPath) > Len(Top.namespaces)
    /\ SubSeq(CurDefPath, 1, Len(Top.namespaces)) = Top.namespaces
    /\ \E j \in 0..(Top.i - 1) :
          CurDefPath[Len(Top.namespaces) + 1]
            = StepNameStr(Top.yaml_stem, j, Top.steps_keys[j + 1])

\* C11: a call token on a step of frame F whose definition was made by an
\* earlier step of F, or inside the sub-workflow of an earlier step of F,
\* has a call tail of length 1 and the step's value becomes
\* <d0>/<d1>___..___<dk>___<def_port> for the definition tail d0..dk; the
\* frame's inputs_workflow, inputs_file_workflow and $calls are unchanged.
C11_DirectWiring ==
    [][AtCallOfEarlierStep
         => LET dt == SubSeq(CurDefPath, Len(Top.namespaces) + 1, Len(CurDefPath))
            IN  /\ fatal' = NoError
                /\ Len(arg'.lca.nss_call_tails) = 1
                /\ arg'.lca.nss_def_tails = dt
                /\ Get(TopAfter.steps[Top.i + 1].in, CurKey)
                     = dt[1] \o <<"/">> \o Join(Tail(dt) \o <<CurDefPort>>)
                /\ Len(dt) = 1
                     => Get(TopAfter.steps[Top.i + 1].in, CurKey)
                          = dt[1] \o <<"/">> \o CurDefPort
                /\ TopAfter.inputs_workflow = Top.inputs_workflow
                /\ TopAfter.inputs_file_workflow = Top.inputs_file_workflow
                /\ TopAfter.vars_dollar_calls = Top.vars_dollar_calls
      ]_vars

\* C11 witness: a call was wired directly to a definition made inside the
\* sub-workflow of an earlier step.
C11_Witness ==
    /\ arg.kind = "direct"
    /\ fatal = NoError
    /\ Len(arg.lca.nss_def_tails) = 2

\* The call token about to be processed names a definition made outside
\* the top frame's sub-workflow, by a step of its parent frame or below one:
\* the call tail has length 2.
AtCallTailTwo ==
    /\ AtCall
    /\ Has(vars_dollar_defs, Tail(CurVal))
    /\ Len(Top.namespaces) >= 1
    /\ Len(CommonPrefix(CurDefPath, Top.namespaces \o <<CurStepName>>))
         = Len(Top.namespaces) - 1

\* The required argument the top frame is about to process.
AtRequired == Running /\ Top.pc = "required"

CurReqKey == Top.args_required[Top.k]

\* The required argument is an input the child forwarded for a call whose
\* definition lies in the top frame's own subtree, one level above the child.
AtWireTailTwo ==
    /\ AtRequired
    /\ Has(Top.vars_dollar_calls, CurReqKey)
    /\ Len(Split(CurReqKey)) = 2
    /\ Len(CommonPrefix(Get(Top.vars_dollar_calls, CurReqKey)[1],
                        Top.namespaces \o <<CurStepName>>))
         = Len(Top.namespaces)

\* C12: a call token whose call tail has length 2 makes the sub-workflow's
\* frame add <step>___<port> to inputs_workflow, rewrite the step's value
\* to it and record the $defs entry under it in $calls, leaving
\* inputs_file_workflow alone; the name is an input of the compiled
\* document; and the parent sets that input of the step running the
\* sub-workflow to <def_tail_head>/<rest of def tail>___<def_port>.
C12_Forwarding ==
    [][/\ AtCallTailTwo
            => /\ fatal' = NoError
               /\ Has(TopAfter.inputs_workflow, CurInName)
               /\ Get(TopAfter.inputs_workflow, CurInName)
                    = [type |-> Remove(CurToolType, "?")]
               /\ Get(TopAfter.steps[Top.i + 1].in, CurKey) = CurInName
               /\ Has(TopAfter.vars_dollar_calls, CurInName)
               /\ Get(TopAfter.vars_dollar_calls, CurInName)
                    = Get(vars_dollar_defs, Tail(CurVal))
               /\ TopAfter.inputs_file_workflow = Top.inputs_file_workflow
       /\ AtFinish
            => \A k \in KeySet(Top.vars_dollar_calls) :
                  Has(Top.inputs_workflow, k) => Has(ret'.rose.data.doc.inputs, k)
       /\ AtWireTailTwo
            => LET e == Get(Top.vars_dollar_calls, CurReqKey)
                   dt == SubSeq(e[1], Len(Top.namespaces) + 1, Len(e[1]))
               IN  /\ fatal' = NoError
                   /\ Get(TopAfter.steps[Top.i + 1].in, CurReqKey)
                        = dt[1] \o <<"/">> \o Join(Tail(dt) \o <<e[2]>>)
      ]_vars

\* C12 witness: the parent has wired the input a sub-workflow forwarded for
\* a call whose tail had length 2.
C12_Witness ==
    /\ arg.kind = "wired"
    /\ fatal = NoError
    /\ Len(arg.lca.nss_call_tails) = 2
    /\ Len(arg.lca.nss_def_tails) = 1

RECURSIVE PortPath(_, _, _)
\* comps names a port seen from the workflow file stem: a step of that
\* file, then a step of each nested sub-workflow down to an atomic tool,
\* then one of that tool's ports (kind is "inputs" or "outputs").
PortPath(stem, comps, kind) ==
    /\ Len(comps) >= 2
    /\ stem \in DOMAIN files
    /\ \E j \in 1..Len(files[stem].steps) :
          LET key == files[stem].steps[j].key
          IN  /\ comps[1] = StepNameStr(stem, j - 1, key)
              /\ IF Len(comps) = 2
                 THEN /\ Stem(key) \in DOMAIN ToolsInit
                      /\ Has(ToolsInit[Stem(key)].doc[kind], comps[2])
                 ELSE PortPath(Stem(key), Tail(comps), kind)

\* The names a frame has emitted so far, and those of the document just
\* returned.
EmittedInputs(f) == KeySet(f.inputs_workflow) \cup KeySet(f.inputs_file_workflow)

ExpectedOutputs ==
    LET stem == ret.rose.data.name
        step_name(j) == StepNameStr(stem, j - 1, files[stem].steps[j].key)
        ports(j) == Keys(tools[Stem(files[stem].steps[j].key)].doc.outputs)
        internal == {ret.vars_workflow_output_internal[m] :
                        m \in 1..Len(ret.vars_workflow_output_internal)}
    IN  {p \in UNION {{<<j, q>> : q \in 1..Len(ports(j))} :
                          j \in 1..Len(files[stem].steps)} :
            /\ ~Contains(ports(p[1])[p[2]], "dhdl")
            /\ ~Contains(ports(p[1])[p[2]], "xtc")
            /\ \/ args.cwl_output_intermediate_files
               \/ step_name(p[1]) \o <<"/">> \o ports(p[1])[p[2]] \notin internal}

C15_WireOnlyAtLca ==
    [][(AtRequired /\ Has(Top.vars_dollar_calls, CurReqKey))
         => LET nss_def == Get(Top.vars_dollar_calls, CurReqKey)[1]
                nss_call == Top.namespaces \o <<CurStepName>>
                              \o Init_(Split(CurReqKey))
                value == Get(TopAfter.steps[Top.i + 1].in, CurReqKey)
            IN  /\ Len(CommonPrefix(nss_def, nss_call)) = Len(Top.namespaces)
                /\ \E j \in 1..Len(Top.steps_keys) :
                      IsPrefix(StepNameStr(Top.yaml_stem, j - 1, Top.steps_keys[j])
                                 \o <<"/">>, value)
      ]_vars

\* The top frame is about to compile the sub-workflow of its current step.
AtRecurse ==
    /\ Running
    /\ AtStep(Top)
    /\ Top.steps_keys[Top.i + 1] \in Top.subkeys

\* C16 (as claimed): when the compilation of a sub-workflow with stem s
\* returns, the registry gets (s.cwl, the child's document) under s and no
\* other entry changes; and a step that references a stem the registry
\* already holds a compiled workflow for is not compiled again.
C16_RegistryUpdate ==
    [][/\ (Running /\ Top.pc = "merge" /\ ret.present)
            => LET s == Stem(Top.steps_keys[Top.i + 1])
               IN  /\ tools'[s] = [run |-> s \o <<".cwl">>, doc |-> ret.rose.data.doc]
                   /\ ret.rose.data.doc.class = "Workflow"
                   /\ \A t \in DOMAIN tools \ {s} : tools'[t] = tools[t]
       /\ AtRecurse
            => Stem(Top.steps_keys[Top.i + 1]) \notin DOMAIN tools
      ]_vars

\* C17 (as claimed): when a frame below the root has aborted, $defs as its
\* caller sees it holds no entry written by that frame or its descendants,
\* that is, none whose path starts with the failed frame's namespace path.
C17_FailedFrameDiscarded ==
    (/\ fatal \in {"Exception: Multiple definitions", "Exception: does not exist",
                   "Exception: Unknown class"}
     /\ Len(stack) >= 2)
      => \A x \in KeySet(vars_dollar_defs) :
            ~IsPrefix(Top.namespaces, Get(vars_dollar_defs, x)[1])

\* C18 (as claimed): the required arguments of a step on a CommandLineTool
\* are the tool's inputs whose type does not end in ? and that have no
\* default key, whatever the default's value; on a Workflow they are all
\* the inputs.
C18_ArgsRequired ==
    (stack # <<>> /\ Top.pc \in {"provided", "required", "out"})
      => LET tool_i == tools[Stem(Top.steps_keys[Top.i + 1])].doc
             in_tool == tool_i.inputs
         IN  Top.args_required
               = IF tool_i.class = "CommandLineTool"
                 THEN SelectSeq(Keys(in_tool),
                                LAMBDA a : /\ Last(Get(in_tool, a).type) # "?"
                                           /\ Get(in_tool, a).default = "absent")
                 ELSE Keys(in_tool)

\* The child of the top frame has returned and is about to be merged.
AtMerge == Running /\ Top.pc = "merge" /\ ret.present

\* C19: the merge of a returned child leaves the parent's inputs_workflow
\* unchanged, adds every entry k of the child's inputs_file_workflow under
\* <child_step_name>___<k> with the same (value, type), appends the
\* child's internal outputs to the parent's, and leaves the child's $defs
\* and $calls entries in the parent's $defs and $calls.
C19_MergeOnReturn ==
    [][AtMerge
         => /\ TopAfter.inputs_workflow = Top.inputs_workflow
            /\ \A k \in KeySet(ret.inputs_file_workflow) :
                  /\ Has(TopAfter.inputs_file_workflow, CurStepName \o <<SEP>> \o k)
                  /\ Get(TopAfter.inputs_file_workflow, CurStepName \o <<SEP>> \o k)
                       = Get(ret.inputs_file_workflow, k)
            /\ TopAfter.vars_workflow_output_internal
                 = Top.vars_workflow_output_internal
                     \o ret.vars_workflow_output_internal
            /\ \A x \in KeySet(ret.vars_dollar_defs) :
                  /\ Has(vars_dollar_defs', x)
                  /\ Get(vars_dollar_defs', x) = Get(ret.vars_dollar_defs, x)
            /\ \A k \in KeySet(ret.vars_dollar_calls) :
                  /\ Has(TopAfter.vars_dollar_calls, k)
                  /\ Get(TopAfter.vars_dollar_calls, k) = Get(ret.vars_dollar_calls, k)
      ]_vars

\* C19 witness: a parent has merged a child that returned inputs, an
\* inputs file entry, an internal output and a $calls entry.
C19_Witness ==
    /\ Running
    /\ Top.pc = "tool"
    /\ Top.inputs_file_workflow # <<>>
    /\ Top.vars_workflow_output_internal # <<>>
    /\ Top.vars_dollar_calls # <<>>
    /\ Top.inputs_workflow # <<>>

\* C20 (as claimed): for a frame whose first step is an atomic tool, the
\* first-step name it returns is (between the quotes of line 339) the name
\* of the node it drew for the step at index 0, the namespace path and
\* step_name(yaml_stem, 0, first step key) joined by ___; and every name
\* in a rank-alignment directive is the name of a node of the graph.
C20_FirstStepName ==
    /\ (ret.present /\ Stem(files[ret.rose.data.name].steps[1].key) \in DOMAIN ToolsInit)
         => LET stem == ret.rose.data.name
                node == Join(ret.rose.data.namespaces
                             \o <<StepNameStr(stem, 0, files[stem].steps[1].key)>>)
            IN  /\ Remove(ret.step_name_1, "\"") = node
                /\ \E n \in graph.nodes : n.name = node
    /\ \A r \in graph.ranks : \A j \in 1..Len(r.names) :
          \E n \in graph.nodes : n.name = Remove(r.names[j], "\"")

RECURSIVE SubtreeHasDef(_, _)
\* Step j (from 1) of the workflow file stem writes the definition token
\* &name, itself or in a step of the sub-workflow tree below it.
StepHasDef(stem, j, name) ==
    LET step == files[stem].steps[j]
    IN  \/ \E m \in 1..Len(step.in) : step.in[m][2] = <<"&">> \o name
        \/ /\ Stem(step.key) \in DOMAIN files
           /\ files[Stem(step.key)].exists
           /\ SubtreeHasDef(Stem(step.key), name)

SubtreeHasDef(stem, name) ==
    \E j \in 1..Len(files[stem].steps) : StepHasDef(stem, j, name)

\* In the depth-first, left-to-right order of the running compilation no
\* step before the call token about to be processed writes &name: not an
\* earlier step of a frame on the stack (with its subtree), not an earlier
\* argument of the current step.
NoEarlierDef(name) ==
    /\ \A d \in 1..Len(stack) : \A j \in 1..stack[d].i :
          ~StepHasDef(stack[d].yaml_stem, j, name)
    /\ \A m \in 1..(Top.k - 1) :
          Get(Top.steps[Top.i + 1].in, Top.args_provided[m]) # <<"&">> \o name
          /\ files[Top.yaml_stem].steps[Top.i + 1].in[m][2] # <<"&">> \o name

\* C21: a call token processed when no earlier step of the compilation
\* has written its definition finds no $defs entry and is handled as
\* unresolved, also when a later step writes the definition: no $calls
\* entry, no edge, the raw token or the root's placeholder as the step's
\* value; and a definition processed later changes nothing but its own
\* argument, its two input tables and $defs: no other step, no other
\* frame, no compiled document in the registry.
C21_DefinitionBeforeCall ==
    [][/\ (AtCall /\ NoEarlierDef(Tail(CurVal)))
            => /\ ~Has(vars_dollar_defs, Tail(CurVal))
               /\ arg'.kind = "unresolved"
               /\ fatal' = NoError
               /\ graph' = graph
               /\ TopAfter.vars_dollar_calls = Top.vars_dollar_calls
               /\ Get(TopAfter.steps[Top.i + 1].in, CurKey)
                    = IF Top.is_root THEN CurInName ELSE CurVal
       /\ (AtDefine /\ ~Has(vars_dollar_defs, Tail(CurVal)))
            => /\ \A d \in 1..(Len(stack) - 1) : stack'[d] = stack[d]
               /\ \A j \in 1..Len(Top.steps) :
                     j # Top.i + 1 => TopAfter.steps[j] = Top.steps[j]
               /\ \A m \in 1..Len(Top.args_provided) :
                     m # Top.k
                       => Get(TopAfter.steps[Top.i + 1].in, Top.args_provided[m])
                            = Get(Top.steps[Top.i + 1].in, Top.args_provided[m])
               /\ \A k \in KeySet(Top.inputs_workflow) \ {CurInName} :
                     /\ Has(TopAfter.inputs_workflow, k)
                     /\ Get(TopAfter.inputs_workflow, k) = Get(Top.inputs_workflow, k)
               /\ TopAfter.vars_dollar_calls = Top.vars_dollar_calls
               /\ TopAfter.recursive_data_list = Top.recursive_data_list
               /\ tools' = tools
               /\ graph' = graph
      ]_vars

\* C21 witness: a definition was registered by a step whose frame holds,
\* on an earlier step, a call of the same name that was handled as
\* unresolved and still has the root's placeholder as its value.
C21_Witness ==
    /\ arg.kind = "define"
    /\ fatal = NoError
    /\ stack # <<>>
    /\ Top.is_root
    /\ \E j \in 1..Top.i :
          /\ files[Top.yaml_stem].steps[j].in = << <<O, <<"*">> \o arg.arg_val>> >>
          /\ Get(Top.steps[j].in, O)
               = StepNameStr(Top.yaml_stem, j - 1, Top.steps_keys[j]) \o <<SEP>> \o O

====
